---------------------------- MODULE Spec2Model ----------------------------
(***************************************************************************)
(* Model of src/sources/main.cu: the host orchestrator `main', the kernel  *)
(* `vectorAddition' and the tolerance comparator `isClose'.                *)
(*                                                                         *)
(* Three specifications share the variables:                               *)
(*   Spec        one run of main (count and work-group size scaled down),  *)
(*   SpecKernel  one launch of vectorAddition for arbitrary count / grid,  *)
(*   SpecClose   one call of isClose on arbitrary arguments.               *)
(***************************************************************************)
EXTENDS Integers, Sequences, FiniteSets

VARIABLES
  pc,                 \* index into Program of the step main is at
  count,              \* size_t count, as two limbs <<hi, lo>> of 16 bits
  threads_per_block,  \* blockDim.x of the launch
  folded,             \* build outcome: reads of the const device pointers yield NULL
  heap,               \* host buffers currently allocated (malloc, not yet free)
  dev,                \* device buffers currently allocated (cudaMalloc, not yet cudaFree)
  host,               \* host vectors: host["a"], host["b"], host["c"]
  device,             \* device vectors: device["a"], device["b"], device["c"]
  i,                  \* the loop variable of main's for loops
  kernel,             \* state of the launch: "none", "running", "failed", "complete"
  lanes,              \* lanes <<blockIdx.x, threadIdx.x>> of the launch that have run
  access,             \* every element access made by a lane or by validation
  launches,           \* number of kernel launches so far
  succeeded,          \* the steps of main that completed successfully, in order
  stderr, stdout,     \* lines written to the two streams
  status,             \* "running", "EXIT_SUCCESS" or "EXIT_FAILURE"
  x, y, rel_tol, abs_tol,  \* arguments of one isClose call
  ret, cpc                 \* its return value and its position

ctlVars == <<pc, i, succeeded, stderr, stdout, status>>
mainVars == <<pc, count, threads_per_block, folded, heap, dev, host, device, i, kernel,
              lanes, access, launches, succeeded, stderr, stdout, status>>
closeVars == <<x, y, rel_tol, abs_tol, ret, cpc>>
vars == <<mainVars, closeVars>>

host_a == host["a"]
host_b == host["b"]
host_c == host["c"]
device_a == device["a"]
device_b == device["b"]
device_c == device["c"]

----------------------------------------------------------------------------
(***************************************************************************)
(* real_type.  A double is modelled as a record: a finite value is a       *)
(* fixed-point number num/Den, the non-finite values are +inf, -inf, NaN.  *)
(***************************************************************************)
Den == 100

Fin(n) == [cls |-> "finite", num |-> n]
PosInf == [cls |-> "inf", num |-> 1]
NegInf == [cls |-> "inf", num |-> -1]
NaN == [cls |-> "nan", num |-> 0]
\* The indeterminate contents of memory that was allocated and never written.
Garbage == [cls |-> "indeterminate", num |-> 0]
Zero == Fin(0)

Abs(n) == IF n < 0 THEN -n ELSE n
Max(m, n) == IF m < n THEN n ELSE m

isfinite(v) == v.cls = "finite"

\* IEEE comparisons: every comparison with a NaN operand is false.
FEq(v, w) == v.cls \in {"finite", "inf"} /\ v = w

FLe(v, w) ==
  /\ v.cls # "nan" /\ w.cls # "nan"
  /\ \/ v = w
     \/ v = NegInf
     \/ w = PosInf
     \/ isfinite(v) /\ isfinite(w) /\ v.num <= w.num

FGe(v, w) == FLe(w, v)

fabs(v) ==
  CASE v.cls = "finite" -> Fin(Abs(v.num))
    [] v.cls = "inf" -> PosInf
    [] OTHER -> NaN

FNeg(v) ==
  CASE v.cls = "finite" -> Fin(-v.num)
    [] v.cls = "inf" -> [cls |-> "inf", num |-> -v.num]
    [] OTHER -> NaN

FAdd(v, w) ==
  CASE v = Garbage \/ w = Garbage -> Garbage
    [] v.cls = "nan" \/ w.cls = "nan" -> NaN
    [] v.cls = "inf" /\ w.cls = "inf" -> IF v = w THEN v ELSE NaN
    [] v.cls = "inf" -> v
    [] w.cls = "inf" -> w
    [] OTHER -> Fin(v.num + w.num)

FSub(v, w) == FAdd(v, FNeg(w))

Sign(v) == IF v.num < 0 THEN -1 ELSE IF v.num > 0 THEN 1 ELSE 0

\* A finite product is rounded down to the next multiple of 1/Den.
FMul(v, w) ==
  CASE v.cls = "nan" \/ w.cls = "nan" -> NaN
    [] v.cls = "inf" \/ w.cls = "inf" ->
         IF Sign(v) * Sign(w) = 0 THEN NaN
         ELSE [cls |-> "inf", num |-> Sign(v) * Sign(w)]
    [] OTHER -> Fin((v.num * w.num) \div Den)

----------------------------------------------------------------------------
(***************************************************************************)
(* isClose (main.cu:32-53).  The two asserts are the guard of the action   *)
(* IsCloseReturn below; the body is the operator.                          *)
(***************************************************************************)
isClose_noRelY(px, py, prel, pabs) ==
  IF isfinite(px) /\ isfinite(py)
  THEN IF FEq(px, py) THEN TRUE
       ELSE LET abs_diff == fabs(FSub(px, py))
            IN \/ FLe(abs_diff, pabs)
               \/ FLe(abs_diff, FMul(prel, fabs(px)))
  ELSE FEq(px, py)

isClose(px, py, prel, pabs) ==
  IF isfinite(px) /\ isfinite(py)
  THEN IF FEq(px, py) THEN TRUE
       ELSE LET abs_diff == fabs(FSub(px, py))
            IN \/ FLe(abs_diff, pabs)
               \/ FLe(abs_diff, FMul(prel, fabs(px)))
               \/ FLe(abs_diff, FMul(prel, fabs(py)))
  ELSE FEq(px, py)

----------------------------------------------------------------------------
(***************************************************************************)
(* SpecClose: one call of isClose.  The arguments are drawn from finite    *)
(* values k/2 (|k| <= MaxNum), tolerances k/4 (-1 <= k <= MaxTol) and the  *)
(* non-finite values.                                                      *)
(***************************************************************************)
MaxNum == 3
MaxTol == 4

CloseValues == {Fin((Den \div 2) * k) : k \in -MaxNum..MaxNum} \cup {PosInf, NegInf, NaN}
CloseTols == {Fin((Den \div 4) * k) : k \in -1..MaxTol} \cup {PosInf, NaN}

MainIdle ==
  /\ pc = 0 /\ count = <<0, 0>> /\ threads_per_block = 1 /\ folded = FALSE
  /\ heap = {} /\ dev = {}
  /\ host = [b \in {"a", "b", "c"} |-> <<>>]
  /\ device = [b \in {"a", "b", "c"} |-> <<>>]
  /\ i = 0 /\ kernel = "none" /\ lanes = {} /\ access = {} /\ launches = 0
  /\ succeeded = <<>> /\ stderr = <<>> /\ stdout = <<>> /\ status = "idle"

CloseIdle ==
  /\ x = Zero /\ y = Zero /\ rel_tol = Zero /\ abs_tol = Zero
  /\ ret = FALSE /\ cpc = "idle"

InitClose ==
  /\ MainIdle
  /\ x \in CloseValues /\ y \in CloseValues
  /\ rel_tol \in CloseTols /\ abs_tol \in CloseTols
  /\ ret = FALSE /\ cpc = "call"

\* assert (rel_tol >= 0.0); assert (abs_tol >= 0.0);
Asserted == FGe(rel_tol, Zero) /\ FGe(abs_tol, Zero)

IsCloseReturn ==
  /\ cpc = "call" /\ Asserted
  /\ ret' = isClose(x, y, rel_tol, abs_tol)
  /\ cpc' = "returned"
  /\ UNCHANGED <<mainVars, x, y, rel_tol, abs_tol>>

IsCloseAbort ==
  /\ cpc = "call" /\ ~Asserted
  /\ cpc' = "aborted"
  /\ UNCHANGED <<mainVars, x, y, rel_tol, abs_tol, ret>>

NextClose == IsCloseReturn \/ IsCloseAbort

SpecClose == InitClose /\ [][NextClose]_vars

----------------------------------------------------------------------------
(***************************************************************************)
(* Claims about isClose, checked under SpecClose.                          *)
(***************************************************************************)
Returned == cpc = "returned"
NonFinite == ~isfinite(x) \/ ~isfinite(y)

\* C6: on a non-finite argument isClose is true exactly when x and y are the
\* identical value, so that isClose(NaN, NaN, r, a) is true,
\* isClose(NaN, 1.0, r, a) is false and isClose(+inf, +inf, r, a) is true.
C6_AsStated == (Returned /\ NonFinite) => (ret <=> (x = y))

\* What main.cu:52 (return x == y) computes instead: true exactly when x and
\* y are the same infinity, false as soon as either argument is a NaN.
IsCloseNonFiniteAsCoded ==
  (Returned /\ NonFinite) => (ret <=> (x.cls = "inf" /\ y.cls = "inf" /\ x.num = y.num))

\* |px - py| <= tol for a difference d (in units of 1/Den) and a tolerance.
WithinAbs(d, tol) == tol = PosInf \/ (isfinite(tol) /\ d <= tol.num)
\* |px - py| <= rel * m for a difference d and a magnitude m (units of 1/Den).
WithinRel(d, rel, m) ==
  \/ rel = PosInf /\ m > 0
  \/ isfinite(rel) /\ d * Den <= rel.num * m

\* C7: on finite arguments isClose is true if and only if x == y or
\* |x-y| <= abs_tol or |x-y| <= rel_tol * max(|x|, |y|).
C7_Finite ==
  (Returned /\ isfinite(x) /\ isfinite(y)) =>
    LET d == Abs(x.num - y.num)
        m == Max(Abs(x.num), Abs(y.num))
    IN ret <=> (x.num = y.num \/ WithinAbs(d, abs_tol) \/ WithinRel(d, rel_tol, m))

C7_Witness ==
  /\ Returned /\ isfinite(x) /\ isfinite(y) /\ ret
  /\ Abs(x.num) < Abs(y.num) /\ x # y
  /\ ~WithinAbs(Abs(x.num - y.num), abs_tol)
  /\ ~WithinRel(Abs(x.num - y.num), rel_tol, Abs(x.num))

----------------------------------------------------------------------------
(***************************************************************************)
(* Index arithmetic.  A size_t or unsigned value is kept as two limbs      *)
(* <<hi, lo>> standing for hi * 2^16 + lo, so that the 32-bit width of     *)
(* `unsigned' is kept exactly: an unsigned has hi < 2^16, a size_t may     *)
(* have more.                                                              *)
(***************************************************************************)
UHalf == 65536

Size(n) == <<n \div UHalf, n % UHalf>>

\* p < q
SLt(p, q) == p[1] < q[1] \/ (p[1] = q[1] /\ p[2] < q[2])

\* p + k and p / d in size_t, for a small k >= 0 and a small d >= 1
SAdd(p, k) == LET s == p[2] + k IN <<p[1] + (s \div UHalf), s % UHalf>>
SDiv(p, d) == <<p[1] \div d, (((p[1] % d) * UHalf) + p[2]) \div d>>

\* the conversion of a size_t to unsigned
ToUnsigned(p) == <<p[1] % UHalf, p[2]>>

\* const unsigned blocks_per_grid = (count + threads_per_block - 1) / threads_per_block;
blocks_per_grid(cnt, tpb) == ToUnsigned(SDiv(SAdd(cnt, tpb - 1), tpb))

\* const unsigned thread_id = blockDim.x * blockIdx.x + threadIdx.x;
ThreadId(blockDim, blockIdx, threadIdx) ==
  LET s == (blockDim * (blockIdx % UHalf)) + threadIdx
  IN <<((blockDim * (blockIdx \div UHalf)) + (s \div UHalf)) % UHalf, s % UHalf>>

\* if (thread_id < count)
InRange_inclusive(thread_id, cnt) == SLt(thread_id, cnt) \/ thread_id = cnt

InRange(thread_id, cnt) == SLt(thread_id, cnt)

(***************************************************************************)
(* The lanes of a launch.  A grid of at most MaxCount blocks of at most    *)
(* MaxThreads threads is modelled lane by lane.  Of a larger grid only the *)
(* first and last thread of the first and last block are modelled: the     *)
(* other lanes have not run yet in the executions considered.              *)
(***************************************************************************)
MaxCount == 4
MaxThreads == 3

NumBlocks(cnt, tpb) ==
  LET g == blocks_per_grid(cnt, tpb) IN (g[1] * UHalf) + g[2]

WholeGrid(cnt, tpb) == cnt[1] = 0 /\ cnt[2] <= MaxCount /\ tpb <= MaxThreads

Grid(cnt, tpb) ==
  LET nb == NumBlocks(cnt, tpb)
  IN IF WholeGrid(cnt, tpb)
     THEN {<<b, t>> : b \in 0..(nb - 1), t \in 0..(tpb - 1)}
     ELSE {<<b, t>> : b \in {0, nb - 1}, t \in {0, tpb - 1}}

\* The elements of a vector of cnt elements that the model keeps: all of
\* them for a small vector, those the modelled lanes address otherwise.
Cells(cnt, tpb) ==
  IF WholeGrid(cnt, tpb)
  THEN {<<0, k>> : k \in 0..(cnt[2] - 1)}
  ELSE {p \in {ThreadId(tpb, l[1], l[2]) : l \in Grid(cnt, tpb)} : SLt(p, cnt)}

Load(vec, p) == IF p \in DOMAIN vec THEN vec[p] ELSE Garbage
Store(vec, p, v) == IF p \in DOMAIN vec THEN [vec EXCEPT ![p] = v] ELSE vec

Entry(who, buf, p, op) == [lane |-> who, buf |-> buf, idx |-> p, op |-> op]

Running == status = "running"

(***************************************************************************)
(* vectorAddition (main.cu:19-29): the body of one lane.                   *)
(***************************************************************************)
Lane(l) ==
  /\ Running /\ kernel = "running"
  /\ l \in Grid(count, threads_per_block) \ lanes
  /\ lanes' = lanes \cup {l}
  /\ LET thread_id == ThreadId(threads_per_block, l[1], l[2])
     IN IF InRange(thread_id, count)
        THEN /\ device' = [device EXCEPT !["c"] =
                  Store(@, thread_id,
                        FAdd(Load(device["a"], thread_id), Load(device["b"], thread_id)))]
             /\ access' = access \cup { Entry(l, "a", thread_id, "read"),
                                        Entry(l, "b", thread_id, "read"),
                                        Entry(l, "c", thread_id, "write") }
        ELSE UNCHANGED <<device, access>>
  /\ UNCHANGED <<ctlVars, count, threads_per_block, folded, heap, dev, host, kernel,
                 launches, closeVars>>

vectorAddition == \E l \in Grid(count, threads_per_block) : Lane(l)

----------------------------------------------------------------------------
(***************************************************************************)
(* main (main.cu:56-203).  Program is the sequence of its steps; pc is the *)
(* index of the step main is at.  count (65536 in the source) ranges over  *)
(* 1..MaxCount and threads_per_block (256 in the source) over              *)
(* 1..MaxThreads.                                                          *)
(***************************************************************************)
Buffers == {"a", "b", "c"}

Program_launchBeforeCopy ==
  << <<"malloc", "a">>, <<"malloc", "b">>, <<"malloc", "c">>,
     <<"cudaMalloc", "a">>, <<"cudaMalloc", "b">>, <<"cudaMalloc", "c">>,
     <<"fill", "">>,
     <<"cudaMemcpyHostToDevice", "a">>,
     <<"launch", "">>, <<"cudaDeviceSynchronize", "">>,
     <<"cudaMemcpyHostToDevice", "b">>,
     <<"cudaMemcpyDeviceToHost", "c">>,
     <<"validate", "">>,
     <<"cudaFree", "a">>, <<"cudaFree", "b">>, <<"cudaFree", "c">>,
     <<"free", "">>, <<"return", "">> >>

Program ==
  << <<"malloc", "a">>, <<"malloc", "b">>, <<"malloc", "c">>,
     <<"cudaMalloc", "a">>, <<"cudaMalloc", "b">>, <<"cudaMalloc", "c">>,
     <<"fill", "">>,
     <<"cudaMemcpyHostToDevice", "a">>, <<"cudaMemcpyHostToDevice", "b">>,
     <<"launch", "">>, <<"cudaDeviceSynchronize", "">>,
     <<"cudaMemcpyDeviceToHost", "c">>,
     <<"validate", "">>,
     <<"cudaFree", "a">>, <<"cudaFree", "b">>, <<"cudaFree", "c">>,
     <<"free", "">>, <<"return", "">> >>

AtOp(op, b) == Running /\ pc \in 1..Len(Program) /\ Program[pc] = <<op, b>>

\* The step main is at has succeeded: main goes on to the next one.
Complete ==
  /\ pc' = pc + 1
  /\ i' = 0
  /\ succeeded' = Append(succeeded, Program[pc])
  /\ UNCHANGED <<stderr, stdout, status>>

\* fprintf (stderr, ...); return EXIT_FAILURE;
Fail_fallThrough(detail) ==
  /\ stderr' = Append(stderr, [step |-> Program[pc], detail |-> detail])
  /\ pc' = pc + 1
  /\ i' = 0
  /\ UNCHANGED <<succeeded, stdout, status>>

Fail(detail) ==
  /\ stderr' = Append(stderr, [step |-> Program[pc], detail |-> detail])
  /\ status' = "EXIT_FAILURE"
  /\ UNCHANGED <<pc, i, succeeded, stdout>>

Fresh == [p \in Cells(count, threads_per_block) |-> Garbage]

\* host_x = (real_type *) malloc (bytes);
HostMalloc(b) ==
  /\ AtOp("malloc", b)
  /\ \/ /\ heap' = heap \cup {b}
        /\ host' = [host EXCEPT ![b] = Fresh]
        /\ Complete
     \/ /\ Fail(<<>>)
        /\ UNCHANGED <<heap, host>>
  /\ UNCHANGED <<count, threads_per_block, folded, dev, device, kernel, lanes, access,
                 launches, closeVars>>

\* allocated = cudaMalloc ((void **) & device_x, bytes);
CudaMalloc(b) ==
  /\ AtOp("cudaMalloc", b)
  /\ \/ /\ dev' = dev \cup {b}
        /\ device' = [device EXCEPT ![b] = Fresh]
        /\ Complete
     \/ /\ Fail(<<>>)
        /\ UNCHANGED <<dev, device>>
  /\ UNCHANGED <<count, threads_per_block, folded, heap, host, kernel, lanes, access,
                 launches, closeVars>>

\* sin (i) and cos (i), rounded to multiples of 1/Den, for i = 0..7
SinTab == <<0, 84, 91, 14, -76, -96, -28, 66>>
CosTab == <<100, 54, -42, -99, -65, 28, 96, 75>>
sin(k) == Fin(SinTab[k + 1])
cos(k) == Fin(CosTab[k + 1])

\* host_a [i] = sin (i) * sin (i); host_b [i] = cos (i) * cos (i);
FillElement ==
  /\ AtOp("fill", "")
  /\ SLt(Size(i), count)
  /\ host' = [host EXCEPT !["a"] = Store(@, Size(i), FMul(sin(i), sin(i))),
                          !["b"] = Store(@, Size(i), FMul(cos(i), cos(i)))]
  /\ i' = i + 1
  /\ UNCHANGED <<pc, succeeded, stderr, stdout, status, count, threads_per_block, folded,
                 heap, dev, device, kernel, lanes, access, launches, closeVars>>

FillDone ==
  /\ AtOp("fill", "")
  /\ ~SLt(Size(i), count)
  /\ Complete
  /\ UNCHANGED <<count, threads_per_block, folded, heap, dev, host, device, kernel, lanes,
                 access, launches, closeVars>>

\* copied = cudaMemcpy (device_x, host_x, bytes, cudaMemcpyHostToDevice);
\* With the device pointer read as NULL the copy cannot succeed.
CopyToDevice(b) ==
  /\ AtOp("cudaMemcpyHostToDevice", b)
  /\ \/ /\ ~folded
        /\ device' = [device EXCEPT ![b] = host[b]]
        /\ Complete
     \/ /\ Fail(<<>>)
        /\ UNCHANGED device
  /\ UNCHANGED <<count, threads_per_block, folded, heap, dev, host, kernel, lanes, access,
                 launches, closeVars>>

\* cudaGetLastError (); vectorAddition <<<blocks_per_grid, threads_per_block>>> (...);
Launch ==
  /\ AtOp("launch", "")
  /\ launches' = launches + 1
  /\ \/ ~folded /\ kernel' = "running"
     \/ kernel' = "failed"
  /\ Complete
  /\ UNCHANGED <<count, threads_per_block, folded, heap, dev, host, device, lanes, access,
                 closeVars>>

\* A fault while the kernel executes; it is reported at the synchronization.
KernelFault ==
  /\ Running /\ kernel = "running"
  /\ kernel' = "failed"
  /\ UNCHANGED <<ctlVars, count, threads_per_block, folded, heap, dev, host, device, lanes,
                 access, launches, closeVars>>

\* cudaDeviceSynchronize (); added = cudaGetLastError (); if (added != cudaSuccess) ...
Synchronize ==
  /\ AtOp("cudaDeviceSynchronize", "")
  /\ \/ /\ kernel = "running" /\ lanes = Grid(count, threads_per_block)
        /\ kernel' = "complete"
        /\ Complete
     \/ /\ kernel \in {"failed", "none"}
        /\ Fail(<<>>)
        /\ UNCHANGED kernel
  /\ UNCHANGED <<count, threads_per_block, folded, heap, dev, host, device, lanes, access,
                 launches, closeVars>>

\* What a device-to-host copy that reports success leaves in the host
\* vector: the device vector, or (a transfer fault, the injected mismatch
\* of the validation scenario) the vector with one element off by 1/Den or
\* with every element from some index on replaced by NaN.
Delivered(vec) ==
  {vec} \cup {[vec EXCEPT ![p] = FAdd(vec[p], Fin(1))] : p \in DOMAIN vec}
        \cup {[q \in DOMAIN vec |-> IF SLt(q, p) THEN vec[q] ELSE NaN] : p \in DOMAIN vec}

\* copied = cudaMemcpy (host_c, device_c, bytes, cudaMemcpyDeviceToHost);
CopyToHost ==
  /\ AtOp("cudaMemcpyDeviceToHost", "c")
  /\ \/ /\ ~folded
        /\ \E r \in Delivered(device["c"]) : host' = [host EXCEPT !["c"] = r]
        /\ Complete
     \/ /\ Fail(<<>>)
        /\ UNCHANGED host
  /\ UNCHANGED <<count, threads_per_block, folded, heap, dev, device, kernel, lanes, access,
                 launches, closeVars>>

\* isClose (expected, actual, 1e-8, 1e-16): both tolerances are below the
\* resolution 1/Den of the modelled values.
RelTol == Fin(0)
AbsTol == Fin(0)
HostThread == <<-1, -1>>

\* The body of the validation loop, on element k.
Check(k) ==
  LET expected == FAdd(Load(host["a"], Size(k)), Load(host["b"], Size(k)))
      actual == Load(host["c"], Size(k))
  IN /\ access' = access \cup {Entry(HostThread, "host_c", Size(k), "read")}
     /\ IF ~isClose(expected, actual, RelTol, AbsTol)
        THEN Fail(<<k, expected, actual>>)
        ELSE /\ i' = i + 1
             /\ UNCHANGED <<pc, succeeded, stderr, stdout, status>>

\* for (size_t i = 0; i < count; ++ i) { ... if (! isClose (...)) ... }
ValidateElement_fromEnd ==
  /\ AtOp("validate", "")
  /\ SLt(Size(i), count)
  /\ Check(count[2] - 1 - i)
  /\ UNCHANGED <<count, threads_per_block, folded, heap, dev, host, device, kernel, lanes,
                 launches, closeVars>>

ValidateElement ==
  /\ AtOp("validate", "")
  /\ SLt(Size(i), count)
  /\ Check(i)
  /\ UNCHANGED <<count, threads_per_block, folded, heap, dev, host, device, kernel, lanes,
                 launches, closeVars>>

ValidateDone ==
  /\ AtOp("validate", "")
  /\ ~SLt(Size(i), count)
  /\ Complete
  /\ UNCHANGED <<count, threads_per_block, folded, heap, dev, host, device, kernel, lanes,
                 access, launches, closeVars>>

\* freed = cudaFree (device_x);  cudaFree (NULL) succeeds and releases nothing.
CudaFree_ignoreError(b) ==
  /\ AtOp("cudaFree", b)
  /\ \/ /\ dev' = IF folded THEN dev ELSE dev \ {b}
        /\ Complete
     \/ /\ pc' = pc + 1
        /\ UNCHANGED <<dev, i, succeeded, stderr, stdout, status>>
  /\ UNCHANGED <<count, threads_per_block, folded, heap, host, device, kernel, lanes, access,
                 launches, closeVars>>

CudaFree_noRelease(b) ==
  /\ AtOp("cudaFree", b)
  /\ \/ /\ dev' = IF b = "c" THEN dev ELSE dev \ {b}
        /\ Complete
     \/ /\ Fail(<<>>)
        /\ UNCHANGED dev
  /\ UNCHANGED <<count, threads_per_block, folded, heap, host, device, kernel, lanes, access,
                 launches, closeVars>>

CudaFree(b) ==
  /\ AtOp("cudaFree", b)
  /\ \/ /\ dev' = IF folded THEN dev ELSE dev \ {b}
        /\ Complete
     \/ /\ Fail(<<>>)
        /\ UNCHANGED dev
  /\ UNCHANGED <<count, threads_per_block, folded, heap, host, device, kernel, lanes, access,
                 launches, closeVars>>

\* free (host_a); free (host_b); free (host_c);
HostFree ==
  /\ AtOp("free", "")
  /\ heap' = heap \ Buffers
  /\ Complete
  /\ UNCHANGED <<count, threads_per_block, folded, dev, host, device, kernel, lanes, access,
                 launches, closeVars>>

\* printf ("Done.\n"); return EXIT_SUCCESS;
Return ==
  /\ AtOp("return", "")
  /\ stdout' = Append(stdout, "Done.")
  /\ status' = "EXIT_SUCCESS"
  /\ UNCHANGED <<pc, i, succeeded, stderr, count, threads_per_block, folded, heap, dev, host,
                 device, kernel, lanes, access, launches, closeVars>>

Init ==
  /\ CloseIdle
  /\ count \in {Size(n) : n \in 1..MaxCount}
  /\ threads_per_block \in 1..MaxThreads
  /\ folded \in BOOLEAN
  /\ pc = 1 /\ i = 0
  /\ heap = {} /\ dev = {}
  /\ host = [b \in Buffers |-> <<>>]
  /\ device = [b \in Buffers |-> <<>>]
  /\ kernel = "none" /\ lanes = {} /\ access = {} /\ launches = 0
  /\ succeeded = <<>> /\ stderr = <<>> /\ stdout = <<>> /\ status = "running"

Next ==
  \/ \E b \in Buffers : HostMalloc(b)
  \/ \E b \in Buffers : CudaMalloc(b)
  \/ FillElement
  \/ FillDone
  \/ \E b \in Buffers : CopyToDevice(b)
  \/ Launch
  \/ vectorAddition
  \/ KernelFault
  \/ Synchronize
  \/ CopyToHost
  \/ ValidateElement
  \/ ValidateDone
  \/ \E b \in Buffers : CudaFree(b)
  \/ HostFree
  \/ Return

Spec == Init /\ [][Next]_vars

----------------------------------------------------------------------------
(***************************************************************************)
(* Claims about main, checked under Spec.                                  *)
(***************************************************************************)
Range(seq) == {seq[k] : k \in 1..Len(seq)}
Did(op, b) == <<op, b>> \in Range(succeeded)
\* the position of a step among the successful ones (0 when it is not there)
When(op, b) ==
  IF Did(op, b) THEN CHOOSE k \in 1..Len(succeeded) : succeeded[k] = <<op, b>> ELSE 0
Failed == stderr # <<>>
FailedAt(op, b) == Failed /\ stderr[1].step = <<op, b>>

\* The steps of main, in the order of the source text.
StepOrder ==
  << <<"malloc", "a">>, <<"malloc", "b">>, <<"malloc", "c">>,
     <<"cudaMalloc", "a">>, <<"cudaMalloc", "b">>, <<"cudaMalloc", "c">>,
     <<"fill", "">>,
     <<"cudaMemcpyHostToDevice", "a">>, <<"cudaMemcpyHostToDevice", "b">>,
     <<"launch", "">>, <<"cudaDeviceSynchronize", "">>,
     <<"cudaMemcpyDeviceToHost", "c">>,
     <<"validate", "">>,
     <<"cudaFree", "a">>, <<"cudaFree", "b">>, <<"cudaFree", "c">>,
     <<"free", "">> >>

\* C1: when a step fails, no later step is performed, exactly one diagnostic
\* naming the failed step is on stderr and the process exits non-zero; when
\* the device allocation of b fails the kernel is never launched.
C1_FailStop ==
  Failed =>
    /\ status = "EXIT_FAILURE"
    /\ Len(stderr) = 1
    /\ stdout = <<>>
    /\ \E k \in 1..Len(StepOrder) :
         /\ stderr[1].step = StepOrder[k]
         /\ succeeded = SubSeq(StepOrder, 1, k - 1)
    /\ FailedAt("cudaMalloc", "b") =>
         (launches = 0 /\ kernel = "none" /\ lanes = {} /\ dev = {"a"})

C1_Witness ==
  /\ FailedAt("cudaMalloc", "b") /\ status = "EXIT_FAILURE" /\ launches = 0

Close(k) ==
  isClose(FAdd(host_a[Size(k)], host_b[Size(k)]), host_c[Size(k)], RelTol, AbsTol)

EveryStepSucceeded ==
  /\ Range(StepOrder) \subseteq Range(succeeded)
  /\ \A k \in 0..(count[2] - 1) : Close(k)

\* C2: the run prints "Done." and exits with status zero if and only if every
\* allocation, copy, the kernel launch, the validation of every element and
\* every device free succeeded; every other run exits non-zero and never
\* prints "Done.".
C2_DoneIff ==
  /\ stdout # <<>> => (stdout = <<"Done.">> /\ status = "EXIT_SUCCESS")
  /\ status = "EXIT_SUCCESS" => (stdout = <<"Done.">> /\ stderr = <<>> /\ EveryStepSucceeded)
  /\ status = "EXIT_FAILURE" => (stdout = <<>> /\ ~(Range(StepOrder) \subseteq Range(succeeded)))

C2_Witness == status = "EXIT_SUCCESS" /\ stdout = <<"Done.">> /\ Did("cudaFree", "c")

HostReadC == \E e \in access : e.lane = HostThread /\ e.buf = "host_c"

\* C4: both host-to-device copies have succeeded before the kernel is
\* launched, the device-to-host copy of c happens only after the kernel has
\* completed and passed the error check, and validation reads host_c only
\* after that copy succeeded; the three phases do not overlap.
C4_PhaseOrder ==
  /\ (launches > 0 \/ kernel # "none" \/ lanes # {}) =>
       /\ Did("cudaMemcpyHostToDevice", "a") /\ Did("cudaMemcpyHostToDevice", "b")
       /\ When("cudaMemcpyHostToDevice", "a") < When("launch", "")
       /\ When("cudaMemcpyHostToDevice", "b") < When("launch", "")
  /\ lanes # {} => (device_a = host_a /\ device_b = host_b)
  /\ (Did("cudaMemcpyDeviceToHost", "c") \/ FailedAt("cudaMemcpyDeviceToHost", "c")) =>
       /\ kernel = "complete" /\ lanes = Grid(count, threads_per_block)
       /\ Did("cudaDeviceSynchronize", "")
  /\ Did("cudaMemcpyDeviceToHost", "c") =>
       When("cudaDeviceSynchronize", "") < When("cudaMemcpyDeviceToHost", "c")
  /\ HostReadC => Did("cudaMemcpyDeviceToHost", "c")
  /\ kernel = "running" =>
       (~Did("cudaMemcpyDeviceToHost", "c") /\ ~HostReadC
          /\ Len(succeeded) = When("launch", ""))

C4_Witness ==
  /\ HostReadC /\ Did("cudaMemcpyDeviceToHost", "c") /\ kernel = "complete"
  /\ Cardinality(lanes) > 1

Exited == status \in {"EXIT_SUCCESS", "EXIT_FAILURE"}

\* C5 as stated: by the time the process exits every host and device buffer
\* allocated during the run has been deallocated, and the kernel is launched
\* at most once.
C5_AsStated == (Exited => (heap = {} /\ dev = {})) /\ launches <= 1

\* C5 as amended: by the time a run exits with status zero every host and
\* device buffer allocated during the run (all six) has been deallocated; a
\* run that fails returns at once without releasing the buffers it still
\* holds; the kernel is launched at most once per run.
C5_Lifecycle ==
  /\ status = "EXIT_SUCCESS" =>
       /\ \A b \in Buffers : Did("malloc", b) /\ Did("cudaMalloc", b)
       /\ heap = {} /\ dev = {}
  /\ status = "EXIT_FAILURE" =>
       /\ heap = {b \in Buffers : Did("malloc", b)}
       /\ dev = {b \in Buffers : Did("cudaMalloc", b) /\ ~Did("cudaFree", b)}
  /\ launches <= 1

C5_Witness == status = "EXIT_SUCCESS" /\ heap = {} /\ dev = {} /\ launches = 1

\* C10: validation checks the elements in ascending order; a failing run
\* names the smallest index that fails isClose, with that element's expected
\* and actual values, exits non-zero, and frees no device buffer afterwards.
C10_FirstMismatch ==
  /\ FailedAt("validate", "") =>
       LET k == stderr[1].detail[1]
       IN /\ status = "EXIT_FAILURE"
          /\ k \in 0..(count[2] - 1)
          /\ ~Close(k)
          /\ \A j \in 0..(k - 1) : Close(j)
          /\ stderr[1].detail[2] = FAdd(host_a[Size(k)], host_b[Size(k)])
          /\ stderr[1].detail[3] = host_c[Size(k)]
          /\ dev = Buffers
          /\ \A b \in Buffers : ~Did("cudaFree", b)
  /\ Did("validate", "") => \A k \in 0..(count[2] - 1) : Close(k)
  /\ (AtOp("validate", "") /\ ~Failed) => \A j \in 0..(i - 1) : Close(j)

C10_Witness ==
  /\ FailedAt("validate", "") /\ stderr[1].detail[1] > 0
  /\ \E k \in 0..(count[2] - 1) : k > stderr[1].detail[1] /\ ~Close(k)

----------------------------------------------------------------------------
(***************************************************************************)
(* SpecKernel: one launch of vectorAddition with blocks_per_grid blocks of *)
(* threads_per_block threads on vectors a[k] = k + 1, b[k] = 10 (k + 1).   *)
(* The launches are those of at most MaxCount elements and MaxThreads      *)
(* threads per block, and the launch of 2^32 + 1 elements in blocks of     *)
(* 1024 threads (4194305 blocks), within the grid limits of the device.    *)
(***************************************************************************)
KernelLaunches ==
  {<<Size(n), t>> : n \in 0..MaxCount, t \in 1..MaxThreads} \cup { <<<<65536, 1>>, 1024>> }

InitKernel ==
  /\ CloseIdle
  /\ \E launch \in KernelLaunches :
       /\ count = launch[1] /\ threads_per_block = launch[2]
       /\ device = [b \in {"a", "b", "c"} |->
                     [p \in Cells(launch[1], launch[2]) |->
                        CASE b = "a" -> Fin(Den * (p[2] + 1))
                          [] b = "b" -> Fin(Den * 10 * (p[2] + 1))
                          [] OTHER -> Garbage]]
       /\ host = [b \in {"a", "b", "c"} |-> [p \in Cells(launch[1], launch[2]) |-> Garbage]]
  /\ pc = 0 /\ folded = FALSE /\ heap = {} /\ dev = {"a", "b", "c"}
  /\ i = 0 /\ kernel = "running" /\ lanes = {} /\ access = {} /\ launches = 1
  /\ succeeded = <<>> /\ stderr = <<>> /\ stdout = <<>> /\ status = "running"

\* The launch is over when every lane of the grid has run.
KernelComplete ==
  /\ kernel = "running"
  /\ WholeGrid(count, threads_per_block)
  /\ lanes = Grid(count, threads_per_block)
  /\ kernel' = "complete"
  /\ UNCHANGED <<ctlVars, count, threads_per_block, folded, heap, dev, host, device,
                 lanes, access, launches, closeVars>>

NextKernel == vectorAddition \/ KernelComplete

SpecKernel == InitKernel /\ [][NextKernel]_vars

----------------------------------------------------------------------------
(***************************************************************************)
(* Claims about the kernel, checked under SpecKernel.                      *)
(***************************************************************************)
Writes(p) == {e \in access : e.buf = "c" /\ e.op = "write" /\ e.idx = p}
Ran(l) == l \in lanes
LaneEntries(l) == {e \in access : e.lane = l}

\* C3: every output index in [0, N) is written exactly once, and once the
\* launch is complete c[i] == a[i] + b[i] for every i in [0, N).
C3_Coverage ==
  /\ \A p \in DOMAIN device_c : Cardinality(Writes(p)) <= 1
  /\ kernel = "complete" =>
       \A p \in DOMAIN device_c :
         /\ Cardinality(Writes(p)) = 1
         /\ device_c[p] = FAdd(device_a[p], device_b[p])

\* The coverage property on the launches whose count is below 2^16: there no
\* thread_id wraps around, and the property holds.
C3_SmallGrids == count[1] = 0 => C3_Coverage

\* C8: a lane whose index is >= count reads and writes nothing, and no lane
\* accesses an element outside [0, count).
C8_Bounds ==
  /\ \A e \in access : SLt(e.idx, count)
  /\ \A l \in lanes :
       ~SLt(ThreadId(threads_per_block, l[1], l[2]), count) => LaneEntries(l) = {}

C8_Witness ==
  /\ kernel = "complete" /\ access # {}
  /\ \E l \in lanes :
       /\ ~SLt(ThreadId(threads_per_block, l[1], l[2]), count)
       /\ LaneEntries(l) = {}

\* C9: no two lanes write the same element of c, no lane writes a or b or
\* reads c, and the completed launch leaves c[i] = a[i] + b[i] whatever the
\* order in which the lanes ran.
C9_OrderIndependence ==
  /\ \A e1, e2 \in access :
       (e1.op = "write" /\ e2.op = "write" /\ e1.buf = e2.buf /\ e1.idx = e2.idx)
         => e1.lane = e2.lane
  /\ \A e \in access : (e.op = "write") <=> (e.buf = "c")
  /\ kernel = "complete" =>
       device_c = [p \in DOMAIN device_c |-> FAdd(device_a[p], device_b[p])]

====
